---- MODULE Spec2Model ----
(***************************************************************************)
(* Model of the filter resolution and cross-shard join code of             *)
(* mock_wrangling: read_filters.py, mock_file_types.py,                    *)
(* select_magnitudes.py, create_mock_cutout.py, build_catalog_script.py.   *)
(*                                                                         *)
(* Text is modelled as a sequence of one-character strings, so that glob   *)
(* matching, sorting, str.split and slicing are computed as Python         *)
(* computes them.  A filter name is a pair <<"str", s>> or <<"bytes", s>>. *)
(* A float is a record that is a number or NaN.                            *)
(***************************************************************************)
EXTENDS Integers, Sequences, FiniteSets, TLC

VARIABLES
    fs,         \* the SED shards on disk: path -> [filters, ids, ap, ab]
    pc,         \* position of the run that the specification describes
    args,       \* arguments of the function being run
    result,     \* what the function returned or raised
    open_files, \* the hdf5 files that are open
    locals,     \* the local variables of the function that is running
    self,       \* the FilterData object under construction
    catalogs    \* the text catalogs written so far: name -> header and rows

vars == <<fs, pc, args, result, open_files, locals, self, catalogs>>

\* what a run of one function leaves alone
others == <<open_files, locals, self, catalogs>>

(***************************************************************************)
(* Bounds of the model.                                                    *)
(***************************************************************************)
MaxCols == 2        \* filter names in one shard's "filters" column
MaxFilters == 3     \* filters in one request
MaxShardRows == 2   \* objects in one shard
MaxExtract == 2     \* filters in one call of get_mag_data
MaxRequest == 2     \* filters requested in one catalog build
MaxMockFiles == 2   \* mock light cone files given to make_mock_catalog
MaxJoinRows == 2    \* data rows of a catalog given to combine_mag_gal_cats
MaxMagRows == 3     \* data rows of a catalog given to ids_less_than_mag

(***************************************************************************)
(* Python and numpy primitives.                                            *)
(***************************************************************************)
Range(s) == {s[i] : i \in 1..Len(s)}

Min(a, b) == IF a < b THEN a ELSE b

SeqsUpTo(S, n) == UNION {[1..k -> S] : k \in 0..n}

Reverse(s) == [i \in 1..Len(s) |-> s[Len(s) + 1 - i]]

\* ord() of the characters the model uses
CharCode(c) ==
    CASE c = "." -> 46 [] c = "/" -> 47 [] c = "0" -> 48 [] c = "1" -> 49
      [] c = "5" -> 53 [] c = "?" -> 63 [] c = "D" -> 68 [] c = "E" -> 69
      [] c = "S" -> 83 [] c = "X" -> 88 [] c = "Y" -> 89 [] c = "Z" -> 90
      [] c = "a" -> 97 [] c = "b" -> 98 [] c = "d" -> 100 [] c = "f" -> 102
      [] c = "h" -> 104 [] c = "*" -> 42

\* a < b for str and for bytes: lexicographic by character code
RECURSIVE StrLess(_, _)
StrLess(a, b) ==
    IF a = <<>> THEN b # <<>>
    ELSE IF b = <<>> THEN FALSE
    ELSE IF Head(a) = Head(b) THEN StrLess(Tail(a), Tail(b))
    ELSE CharCode(Head(a)) < CharCode(Head(b))

\* the effect of leaving np.sort out: one order glob.glob may give
RECURSIVE NpSortOmitted(_)
NpSortOmitted(S) ==
    IF S = {} THEN <<>>
    ELSE LET m == CHOOSE x \in S : \A y \in S \ {x} : StrLess(y, x)
         IN  <<m>> \o NpSortOmitted(S \ {m})

\* np.sort of a collection of distinct strings, ascending
RECURSIVE NpSort(_)
NpSort(S) ==
    IF S = {} THEN <<>>
    ELSE LET m == CHOOSE x \in S : \A y \in S \ {x} : StrLess(x, y)
         IN  <<m>> \o NpSort(S \ {m})

\* fnmatch of one path against a glob pattern: "?" is one character, "*" any
\* run of characters that holds no "/"
RECURSIVE GlobMatch(_, _)
GlobMatch(p, s) ==
    IF p = <<>> THEN s = <<>>
    ELSE IF Head(p) = "*"
         THEN GlobMatch(Tail(p), s)
              \/ (s # <<>> /\ Head(s) # "/" /\ GlobMatch(p, Tail(s)))
    ELSE /\ s # <<>>
         /\ (Head(p) = "?" /\ Head(s) # "/") \/ Head(p) = Head(s)
         /\ GlobMatch(Tail(p), Tail(s))

\* glob.glob(pattern): the paths on disk that match, in no particular order
Glob(pattern) == {p \in DOMAIN fs : GlobMatch(pattern, p)}

IsPrefix(sub, s) == Len(sub) <= Len(s) /\ SubSeq(s, 1, Len(sub)) = sub

\* s.split(sep)[0]: the text before the first occurrence of sep, all of s if none
RECURSIVE SplitFirst(_, _)
SplitFirst(s, sep) ==
    IF s = <<>> \/ IsPrefix(sep, s) THEN <<>>
    ELSE <<Head(s)>> \o SplitFirst(Tail(s), sep)

\* s[:-2]
DropLastTwo(s) == IF Len(s) <= 2 THEN <<>> ELSE SubSeq(s, 1, Len(s) - 2)

\* str.encode() and isinstance(x, str)
IsStr(x) == x[1] = "str"

Encode(x) == <<"bytes", x[2]>>

Decode(x) == <<"str", x[2]>>

\* an exception: its type, its message and the names the message holds
NoError == [type |-> "", message |-> "", names |-> {}]

Raised(type, message, names) == [type |-> type, message |-> message, names |-> names]

\* a value that may be None
None == [none |-> TRUE, v |-> <<>>]

Some(x) == [none |-> FALSE, v |-> x]

IsNone(x) == x.none

\* the integers of a set, ascending
RECURSIVE SortInts(_)
SortInts(S) ==
    IF S = {} THEN <<>>
    ELSE LET m == CHOOSE x \in S : \A y \in S : x <= y
         IN  <<m>> \o SortInts(S \ {m})

\* a list of columns turned into the list of rows: np.array(chunk).T
Transpose(columns) ==
    IF columns = <<>> THEN <<>>
    ELSE [r \in 1..Len(columns[1]) |-> [c \in 1..Len(columns) |-> columns[c][r]]]

KeyError(key) == Raised("KeyError", "object does not exist", {key})

(***************************************************************************)
(* The shards.                                                             *)
(***************************************************************************)
HDF5 == <<".", "h", "d", "f", "5">>

DIRECTORY == <<"d", "/">>

File_a00 == DIRECTORY \o <<"a", "S", "E", "D", "0", "0">> \o HDF5
File_a01 == DIRECTORY \o <<"a", "S", "E", "D", "0", "1">> \o HDF5
File_b00 == DIRECTORY \o <<"b", "S", "E", "D", "0", "0">> \o HDF5
\* a shard whose name holds ".hdf5" before its extension
File_x00 == DIRECTORY \o <<"b">> \o HDF5 \o <<"S", "E", "D", "0", "0">> \o HDF5

FilterX == <<"bytes", <<"X">>>>
FilterY == <<"bytes", <<"Y">>>>
FilterZ == <<"bytes", <<"Z">>>>
FilterBytes == {FilterX, FilterY, FilterZ}

\* a float64: a number, or NaN, which equals nothing and is below nothing
Float(n) == [nan |-> FALSE, v |-> n]

NaN == [nan |-> TRUE, v |-> 0]

IsNaN(x) == x.nan

FloatEq(x, y) == ~x.nan /\ ~y.nan /\ x.v = y.v

FloatLess(x, y) == ~x.nan /\ ~y.nan /\ x.v < y.v

\* a shard of n objects with the given "filters" column; the magnitude of
\* object r in the row of the column's k-th filter is a value that names its
\* place, so that a value read from the wrong row or shard shows
Shard(path, filters, ids) ==
    [filters |-> filters,
     ids     |-> ids,
     ap      |-> [k \in 1..Len(filters) |-> [r \in 1..Len(ids) |-> <<"ap", path, k, r>>]],
     ab      |-> [k \in 1..Len(filters) |-> [r \in 1..Len(ids) |-> <<"ab", path, k, r>>]]]

(***************************************************************************)
(* mock_file_types.py                                                      *)
(***************************************************************************)
\* SED.get_filter_data of the open shard file
get_filter_data(file, filter_name, mag_type) ==
    IF mag_type \notin {"Apparent", "Absolute"}
    THEN [ok |-> FALSE, value |-> <<>>,
          error |-> Raised("ValueError", "mag_type must either be Apparent or Absolute", {})]
    ELSE LET name == IF IsStr(filter_name) THEN Encode(filter_name) ELSE filter_name
             filters == fs[file].filters
         IN  IF name \notin Range(filters)
             THEN [ok |-> FALSE, value |-> <<>>,
                   error |-> Raised("ValueError", "has no filter called", {file, name[2]})]
             ELSE LET pos   == {k \in 1..Len(filters) : filters[k] = name}
                      first == CHOOSE k \in pos : \A j \in pos : k <= j
                      total == IF mag_type = "Apparent" THEN fs[file].ap ELSE fs[file].ab
                  IN  [ok |-> TRUE, value |-> total[first], error |-> NoError]

\* SED.get_filters_data of the open shard file: one row per requested filter
get_filters_data(file, filter_names, mag_type) ==
    LET each == [i \in 1..Len(filter_names) |-> get_filter_data(file, filter_names[i], mag_type)]
        bad  == {i \in 1..Len(each) : ~each[i].ok}
    IN  IF bad # {}
        THEN [ok |-> FALSE, value |-> <<>>,
              error |-> each[CHOOSE i \in bad : \A j \in bad : i <= j].error]
        ELSE [ok |-> TRUE, value |-> [i \in 1..Len(each) |-> each[i].value], error |-> NoError]

\* FilterList.in_bytes and FilterList.in_str
in_bytes(filter_list) ==
    [i \in 1..Len(filter_list) |->
        IF IsStr(filter_list[i]) THEN Encode(filter_list[i]) ELSE filter_list[i]]

in_str(filter_list) ==
    [i \in 1..Len(filter_list) |->
        IF ~IsStr(filter_list[i]) THEN Decode(filter_list[i]) ELSE filter_list[i]]

(***************************************************************************)
(* read_filters.py                                                         *)
(***************************************************************************)
_select_appropriate_sed_files(directory) ==
    Reverse(NpSort(Glob(directory \o <<"*", "S", "E", "D", "*", "0", "0">> \o HDF5)))

\* np.concatenate of a list of 1-d arrays
RECURSIVE Concatenate(_)
Concatenate(arrays) ==
    IF arrays = <<>> THEN <<>> ELSE Head(arrays) \o Concatenate(Tail(arrays))

\* index of the first occurrence of x in s
FirstIndex(s, x) == CHOOSE i \in 1..Len(s) : s[i] = x /\ \A j \in 1..(i - 1) : s[j] # x

\* np.unique(a, return_index=True): the distinct values ascending, and for
\* each the index of its first occurrence in a
NpUnique(a) ==
    LET byValue == NpSort({x[2] : x \in Range(a)})
        values  == [i \in 1..Len(byValue) |-> <<"bytes", byValue[i]>>]
    IN  [values  |-> values,
         indices |-> [i \in 1..Len(values) |-> FirstIndex(a, values[i])]]

\* np.argsort of distinct integers
RECURSIVE ArgSortFrom(_, _)
ArgSortFrom(v, left) ==
    IF left = {} THEN <<>>
    ELSE LET m == CHOOSE i \in left : \A j \in left : v[i] <= v[j]
         IN  <<m>> \o ArgSortFrom(v, left \ {m})

\* the effect of returning np.unique's values as they are
ArgSortOmitted(v) == [i \in 1..Len(v) |-> i]

ArgSort(v) == ArgSortFrom(v, 1..Len(v))

scrape_available_filters(directory) ==
    LET files       == _select_appropriate_sed_files(directory)
        raw_filters == [i \in 1..Len(files) |-> fs[files[i]].filters]
    IN  IF raw_filters = <<>>
        THEN [ok |-> FALSE, value |-> <<>>,
              error |-> Raised("ValueError", "need at least one array to concatenate", {})]
        ELSE LET all_filters == Concatenate(raw_filters)
                 u           == NpUnique(all_filters)
                 order       == ArgSort(u.indices)
             IN  [ok |-> TRUE,
                  value |-> [i \in 1..Len(order) |-> u.values[order[i]]],
                  error |-> NoError]

\* correct_file.split(".hdf5")[0][:-2] + "??.hdf5"
PatternOf(correct_file) ==
    DropLastTwo(SplitFirst(correct_file, HDF5)) \o <<"?", "?">> \o HDF5

\* the local variable correct_file before anything is assigned to it
Unbound == <<>>

\* the loop of find_sed_files_with_filter from the i-th file on: the file the
\* loop leaves in correct_file and the files it opened, each closed by its
\* with-block before the next is opened
RECURSIVE ScanSedFiles(_, _, _)
ScanSedFiles(sed_files, filter_name, i) ==
    IF i > Len(sed_files) THEN [correct_file |-> Unbound, opened |-> <<>>]
    ELSE IF filter_name \in Range(fs[sed_files[i]].filters)
         THEN [correct_file |-> sed_files[i], opened |-> <<sed_files[i]>>]
         ELSE LET rest == ScanSedFiles(sed_files, filter_name, i + 1)
              IN  [correct_file |-> rest.correct_file,
                   opened       |-> <<sed_files[i]>> \o rest.opened]

find_sed_files_with_filter(sed_files, filter_name) ==
    LET name == IF IsStr(filter_name) THEN Encode(filter_name) ELSE filter_name
        scan == ScanSedFiles(sed_files, name, 1)
    IN  IF scan.correct_file = Unbound
        THEN [ok |-> FALSE, value |-> <<>>, opened |-> scan.opened,
              error |-> Raised("UnboundLocalError", "local variable referenced before assignment",
                             {<<"c", "o", "r", "r", "e", "c", "t", "_", "f", "i", "l", "e">>})]
        ELSE [ok |-> TRUE, value |-> PatternOf(scan.correct_file),
              opened |-> scan.opened, error |-> NoError]

\* np.hstack of a list of arrays of one row per filter
NpHStack(arrays, rows) ==
    [f \in 1..rows |-> Concatenate([i \in 1..Len(arrays) |-> arrays[i][f]])]

\* the effect of a with-block that gives an empty row for a filter the shard
\* lacks, in place of letting the ValueError through
ReadShardLenient(file, filter_names) ==
    LET row(f, mag_type) ==
            LET got == get_filter_data(file, filter_names[f], mag_type)
            IN  IF got.ok THEN got.value ELSE <<>>
    IN  [ok |-> TRUE, ids |-> fs[file].ids,
         ap |-> [f \in 1..Len(filter_names) |-> row(f, "Apparent")],
         ab |-> [f \in 1..Len(filter_names) |-> row(f, "Absolute")],
         error |-> NoError]

\* the body of the with-block of get_mag_data for one shard file
ReadShard(file, filter_names) ==
    LET ap == get_filters_data(file, filter_names, "Apparent")
        ab == get_filters_data(file, filter_names, "Absolute")
    IN  [ok |-> ap.ok /\ ab.ok,
         ids |-> fs[file].ids, ap |-> ap.value, ab |-> ab.value,
         error |-> IF ~ap.ok THEN ap.error ELSE ab.error]

get_mag_data(sed_ls_command, filter_names) ==
    LET files == NpSort(Glob(sed_ls_command))
        read  == [i \in 1..Len(files) |-> ReadShard(files[i], filter_names)]
        bad   == {i \in 1..Len(files) : ~read[i].ok}
        fails(e) == [ok |-> FALSE, ids |-> <<>>, ap_mags |-> <<>>, ab_mags |-> <<>>, error |-> e]
    IN  IF bad # {}
        THEN fails(read[CHOOSE i \in bad : \A j \in bad : i <= j].error)
        ELSE IF files = <<>>
        THEN fails(Raised("ValueError", "need at least one array to concatenate", {}))
        ELSE [ok |-> TRUE,
              ids |-> Concatenate([i \in 1..Len(files) |-> read[i].ids]),
              ap_mags |-> NpHStack([i \in 1..Len(files) |-> read[i].ap], Len(filter_names)),
              ab_mags |-> NpHStack([i \in 1..Len(files) |-> read[i].ab], Len(filter_names)),
              error |-> NoError]

\* a dict, in insertion order: a sequence of [key, value] entries
DictKeys(d) == [i \in 1..Len(d) |-> d[i].key]

DictValues(d) == [i \in 1..Len(d) |-> d[i].value]

DictHas(d, key) == \E i \in 1..Len(d) : d[i].key = key

DictGet(d, key) == d[CHOOSE i \in 1..Len(d) : d[i].key = key].value

DictSet(d, key, value) ==
    IF DictHas(d, key)
    THEN [i \in 1..Len(d) |-> IF d[i].key = key THEN [key |-> key, value |-> value] ELSE d[i]]
    ELSE Append(d, [key |-> key, value |-> value])

\* the loop of assign_filters_to_cmds over zip(cmds, filter_list) from pair i on
RECURSIVE GroupFrom(_, _, _, _)
GroupFrom(cmds, filter_list, i, grouped_filters) ==
    IF i > Min(Len(cmds), Len(filter_list)) THEN grouped_filters
    ELSE LET key   == cmds[i]
             fresh == IF DictHas(grouped_filters, key) THEN grouped_filters
                      ELSE DictSet(grouped_filters, key, <<>>)
         IN  GroupFrom(cmds, filter_list, i + 1,
                       DictSet(fresh, key, Append(DictGet(fresh, key), filter_list[i])))

\* the effect of grouped_filters[key] = [filter_item] in place of the append
assign_filters_to_cmds_overwriting(cmds, filter_list) ==
    LET n    == Min(Len(cmds), Len(filter_list))
        all  == GroupFrom(cmds, filter_list, 1, <<>>)
        last(key) == CHOOSE i \in 1..n : cmds[i] = key /\ \A j \in (i + 1)..n : cmds[j] # key
    IN  [keys |-> DictKeys(all),
         values |-> [g \in 1..Len(all) |-> <<filter_list[last(all[g].key)]>>]]

assign_filters_to_cmds(cmds, filter_list) ==
    LET grouped_filters == GroupFrom(cmds, filter_list, 1, <<>>)
    IN  [keys |-> DictKeys(grouped_filters), values |-> DictValues(grouped_filters)]

\* the key "galaxy_ids" of FilterData.magnitudes
GalaxyIdsKey == <<"str", <<"g", "a", "l", "a", "x", "y", "_", "i", "d", "s">>>>

\* the effect of a loop body that keeps the galaxy_ids of the first group
\* in place of overwriting them with each group's
StoreGroupKeepingFirst(magnitudes, filter_group, data) ==
    LET RECURSIVE keep(_, _)
        keep(d, k) ==
            IF k > Min(Len(filter_group), Min(Len(data.ap_mags), Len(data.ab_mags))) THEN d
            ELSE keep(DictSet(d, filter_group[k],
                              [name |-> filter_group[k],
                               apparent_magnitudes |-> data.ap_mags[k],
                               absolute_magnitudes |-> data.ab_mags[k]]), k + 1)
    IN  keep(IF DictHas(magnitudes, GalaxyIdsKey) THEN magnitudes
             ELSE DictSet(magnitudes, GalaxyIdsKey, data.ids), 1)

\* the loop body of FilterData.get_mag_data for one group, given what
\* get_mag_data returned: galaxy_ids is overwritten, each filter gets its Magnitudes
StoreGroup(magnitudes, filter_group, data) ==
    LET RECURSIVE store(_, _)
        store(d, k) ==
            IF k > Min(Len(filter_group), Min(Len(data.ap_mags), Len(data.ab_mags))) THEN d
            ELSE store(DictSet(d, filter_group[k],
                               [name |-> filter_group[k],
                                apparent_magnitudes |-> data.ap_mags[k],
                                absolute_magnitudes |-> data.ab_mags[k]]), k + 1)
    IN  store(DictSet(magnitudes, GalaxyIdsKey, data.ids), 1)

\* zip(ids, rows) of write_to_ascii with the rows whose id is NaN left out
RECURSIVE WrittenRows(_, _, _)
WrittenRows(ids, rows, k) ==
    IF k > Min(Len(ids), Len(rows)) THEN <<>>
    ELSE (IF ~IsNaN(ids[k]) THEN <<<<ids[k]>> \o rows[k]>> ELSE <<>>)
         \o WrittenRows(ids, rows, k + 1)

\* the header line write_to_ascii writes
AsciiHeader(filter_names_string) ==
    <<"ID">> \o Concatenate([i \in 1..Len(filter_names_string) |->
                                << <<filter_names_string[i][2], "_ap">>,
                                   <<filter_names_string[i][2], "_ab">> >>])

\* FilterData.write_to_ascii: the file is opened for writing and the header
\* is written first; an exception after that leaves the header alone in the
\* file.  ragged_as_objects: whether np.array makes an array of objects out
\* of columns of different lengths (older numpy) or raises (numpy 1.24 on)
write_to_ascii(object, ragged_as_objects) ==
    LET header == AsciiHeader(object.filter_names_string)
        names  == object.filter_names_bytes
        mags   == Concatenate([i \in 1..Len(names) |->
                      <<DictGet(object.magnitudes, names[i]).apparent_magnitudes,
                        DictGet(object.magnitudes, names[i]).absolute_magnitudes>>])
        ragged == \E i, j \in 1..Len(mags) : Len(mags[i]) # Len(mags[j])
        fails(e) == [ok |-> FALSE, file |-> [header |-> header, rows |-> <<>>], error |-> e]
    IN  IF ragged /\ ~ragged_as_objects
        THEN fails(Raised("ValueError", "setting an array element with a sequence", {}))
        ELSE IF ~DictHas(object.magnitudes, GalaxyIdsKey)
        THEN fails(KeyError("galaxy_ids"))
        ELSE [ok |-> TRUE,
              file |-> [header |-> header,
                        rows |-> WrittenRows(DictGet(object.magnitudes, GalaxyIdsKey),
                                             IF ragged THEN mags ELSE Transpose(mags), 1)],
              error |-> NoError]

(***************************************************************************)
(* Text catalogs: a header of column names and data rows of floats.        *)
(***************************************************************************)
\* np.loadtxt(file, usecols=col, skiprows=1): the text-table reader, taken at
\* its interface as giving the column of the data rows as an array of floats
NpLoadTxt(catalog, col) == [i \in 1..Len(catalog.rows) |-> catalog.rows[i][col]]

(***************************************************************************)
(* create_mock_cutout.py                                                   *)
(***************************************************************************)
Unwritten == <<"unwritten">>

\* the effect of comparing the ids as sets: np.all(np.isin(a, b)) both ways
NpArrayEqualUnordered(a, b) ==
    /\ \A i \in 1..Len(a) : \E j \in 1..Len(b) : FloatEq(a[i], b[j])
    /\ \A j \in 1..Len(b) : \E i \in 1..Len(a) : FloatEq(a[i], b[j])

\* np.array_equal(a, b): same shape and a[i] == b[i] everywhere
NpArrayEqual(a, b) ==
    /\ Len(a) = Len(b)
    /\ \A i \in 1..Len(a) : FloatEq(a[i], b[i])

\* pd.concat([gal_df, mag_df.drop(columns="ID")], axis=1), id_galaxy_sky cast
\* with astype(int), as to_csv writes it
Combined(gal, mag) ==
    [header |-> gal.header \o Tail(mag.header),
     rows   |-> [i \in 1..Len(gal.rows) |-> <<gal.rows[i][1].v>> \o Tail(gal.rows[i]) \o Tail(mag.rows[i])]]

combine_mag_gal_cats(mock_galaxies_catalog, magnitude_catalog) ==
    LET ids_mock_catalalog == NpLoadTxt(mock_galaxies_catalog, 1)
        ids_magnitude_catalog == NpLoadTxt(magnitude_catalog, 1)
        fails(e) == [ok |-> FALSE, outfile |-> Unwritten, error |-> e]
    IN  IF Len(ids_mock_catalalog) # Len(ids_magnitude_catalog)
        THEN fails(Raised("ValueError",
                 "Length of mock_catalog must be the same as magnitude catalog.", {}))
        ELSE IF ~NpArrayEqual(ids_mock_catalalog, ids_magnitude_catalog)
        THEN fails(Raised("ValueError",
                 "ID mismatch between the mock galaxies and the magnitude catalog.", {}))
        ELSE IF \E i \in 1..Len(mock_galaxies_catalog.rows) : IsNaN(mock_galaxies_catalog.rows[i][1])
        THEN fails(Raised("IntCastingNaNError",
                 "Cannot convert non-finite values (NA or inf) to integer", {}))
        ELSE [ok |-> TRUE, outfile |-> Combined(mock_galaxies_catalog, magnitude_catalog),
              error |-> NoError]

\* an h5py group is a function from the names of its datasets to their arrays
get_h5_group_properties(h5_group, keys, ids, id_column) ==
    LET fails(e) == [ok |-> FALSE, value |-> None, error |-> e]
        missing  == {k \in 1..Len(keys) : keys[k] \notin DOMAIN h5_group}
        read(sub_idx) ==
            IF Len(sub_idx) = 0 THEN [ok |-> TRUE, value |-> None, error |-> NoError]
            ELSE IF missing # {}
            THEN fails(KeyError(keys[CHOOSE k \in missing : \A j \in missing : k <= j]))
            ELSE [ok |-> TRUE,
                  value |-> Some([k \in 1..Len(keys) |->
                                     [j \in 1..Len(sub_idx) |-> h5_group[keys[k]][sub_idx[j]]]]),
                  error |-> NoError]
    IN  IF IsNone(id_column) /\ ~IsNone(ids)
        THEN fails(Raised("AttributeError", "If ids are given then id_column must also be given", {}))
        ELSE IF ~IsNone(ids) /\ ~IsNone(id_column)
        THEN IF id_column.v \notin DOMAIN h5_group THEN fails(KeyError(id_column.v))
             ELSE LET local_ids   == h5_group[id_column.v]
                      overlap_ids == SortInts(Range(ids.v) \cap Range(local_ids))
                  IN  read([j \in 1..Len(overlap_ids) |-> FirstIndex(local_ids, overlap_ids[j])])
        ELSE IF keys = <<>> THEN fails(Raised("IndexError", "list index out of range", {}))
        ELSE IF keys[1] \notin DOMAIN h5_group THEN fails(KeyError(keys[1]))
        ELSE read([j \in 1..Len(h5_group[keys[1]]) |-> j])

\* MockLightCone.__init__ on the file just opened
MockLightCone(hdf5_name) ==
    IF "galaxies" \notin DOMAIN fs[hdf5_name] THEN [ok |-> FALSE, error |-> KeyError("galaxies")]
    ELSE IF "groups" \notin DOMAIN fs[hdf5_name] THEN [ok |-> FALSE, error |-> KeyError("groups")]
    ELSE [ok |-> TRUE, error |-> NoError]

get_galaxy_properties(hdf5_name, keys, galaxy_ids) ==
    get_h5_group_properties(fs[hdf5_name].galaxies, keys, galaxy_ids, Some("id_galaxy_sky"))

get_group_properties(hdf5_name, keys, group_ids) ==
    get_h5_group_properties(fs[hdf5_name].groups, keys, group_ids, Some("id_group_sky"))

\* the rows make_mock_catalog writes for the chunks it gathered
RECURSIVE ChunkRows(_)
ChunkRows(chunks) ==
    IF chunks = <<>> THEN <<>> ELSE Transpose(Head(chunks)) \o ChunkRows(Tail(chunks))

(***************************************************************************)
(* select_magnitudes.py                                                    *)
(***************************************************************************)
read_header(catalog) ==
    IF catalog.header[1] # "ID"
    THEN [ok |-> FALSE, value |-> <<>>,
          error |-> Raised("ValueError", "File does not seem to have an ID column. Please check.", {})]
    ELSE [ok |-> TRUE, value |-> catalog.header, error |-> NoError]

\* the effect of cut = np.where(mags <= mag_limit)
BelowLimitInclusive(mag, mag_limit) == FloatLess(mag, mag_limit) \/ FloatEq(mag, mag_limit)

\* mags < mag_limit, for one magnitude
BelowLimit(mag, mag_limit) == FloatLess(mag, mag_limit)

\* ids[np.where(mags < mag_limit)].astype(int) from row i on
RECURSIVE IdsBelow(_, _, _, _)
IdsBelow(ids, mags, mag_limit, i) ==
    IF i > Len(ids) THEN <<>>
    ELSE (IF BelowLimit(mags[i], mag_limit) THEN <<ids[i].v>> ELSE <<>>)
         \o IdsBelow(ids, mags, mag_limit, i + 1)

ids_less_than_mag(sed_file, filter_name, mag_limit) ==
    LET header == read_header(sed_file)
        fails(e) == [ok |-> FALSE, value |-> <<>>, error |-> e]
    IN  IF ~header.ok THEN fails(header.error)
        ELSE IF filter_name \notin Range(header.value)
        THEN fails(Raised("ValueError",
                 "File does not have that filter in the header. Please check.", {}))
        ELSE LET mag_column == FirstIndex(header.value, filter_name)
                 ids  == NpLoadTxt(sed_file, 1)
                 mags == NpLoadTxt(sed_file, mag_column)
             IN  [ok |-> TRUE, value |-> IdsBelow(ids, mags, mag_limit, 1), error |-> NoError]

(***************************************************************************)
(* Specifications of the single functions: Init draws the disk and the     *)
(* arguments, the one action is the call.                                  *)
(***************************************************************************)
NotRun == [ok |-> FALSE, value |-> <<>>, error |-> NoError]

NoCatalogs == [name \in {} |-> <<>>]

Idle ==
    /\ open_files = {}
    /\ locals = <<>>
    /\ self = <<>>
    /\ catalogs = NoCatalogs

\* the "filters" columns a shard may have: up to MaxCols distinct names
FilterColumns ==
    {c \in SeqsUpTo(FilterBytes, MaxCols) : \A i, j \in 1..Len(c) : c[i] = c[j] => i = j}

OneRow == <<Float(1)>>

\* the representative shards that may be on disk, each with any "filters"
\* column; d/aSED01.hdf5 is always there and is no representative
Representatives == {File_a00, File_b00, File_x00}

RepresentativeDisks ==
    UNION {{[p \in P \cup {File_a01} |->
                IF p = File_a01 THEN Shard(p, <<FilterX, FilterY, FilterZ>>, OneRow)
                ELSE Shard(p, col[p], OneRow)] : col \in [P -> FilterColumns]}
           : P \in SUBSET Representatives}

NoDisk == [p \in {} |-> Shard(p, <<>>, <<>>)]

FilterNames == FilterBytes \cup {Decode(f) : f \in FilterBytes}

\* scrape_available_filters(DIRECTORY)
DiscoverInit ==
    /\ fs \in RepresentativeDisks
    /\ pc = "call"
    /\ args = [directory |-> DIRECTORY]
    /\ result = NotRun
    /\ Idle

Discover ==
    /\ pc = "call"
    /\ result' = scrape_available_filters(args.directory)
    /\ pc' = "done"
    /\ UNCHANGED <<fs, args, others>>

SpecDiscover == DiscoverInit /\ [][Discover]_vars

\* find_sed_files_with_filter(sed_files, filter_name), sed_files as FilterData
\* passes them
ResolveInit ==
    /\ fs \in RepresentativeDisks
    /\ pc = "call"
    /\ \E f \in FilterNames :
          args = [sed_files |-> _select_appropriate_sed_files(DIRECTORY), filter_name |-> f]
    /\ result = NotRun
    /\ Idle

Resolve ==
    /\ pc = "call"
    /\ result' = find_sed_files_with_filter(args.sed_files, args.filter_name)
    /\ pc' = "done"
    /\ UNCHANGED <<fs, args, others>>

SpecResolve == ResolveInit /\ [][Resolve]_vars

\* assign_filters_to_cmds(cmds, filter_list): cmds[i] is the pattern that
\* filter_list[i] resolved to, the same filter always to the same pattern
Patterns == {PatternOf(File_a00), PatternOf(File_b00)}

GroupInit ==
    /\ fs = NoDisk
    /\ pc = "call"
    /\ \E filter_list \in SeqsUpTo(FilterBytes, MaxFilters), resolved \in [FilterBytes -> Patterns] :
          args = [cmds |-> [i \in 1..Len(filter_list) |-> resolved[filter_list[i]]],
                  filter_list |-> filter_list]
    /\ result = NotRun
    /\ Idle

Group ==
    /\ pc = "call"
    /\ result' = assign_filters_to_cmds(args.cmds, args.filter_list)
    /\ pc' = "done"
    /\ UNCHANGED <<fs, args, others>>

SpecGroup == GroupInit /\ [][Group]_vars

\* combine_mag_gal_cats(mock_galaxies_catalog, magnitude_catalog, outfile)
JoinIds == {NaN, Float(0), Float(1), Float(2)}

GalaxyCatalog(ids) ==
    [header |-> <<"id_galaxy_sky", "ra">>,
     rows   |-> [i \in 1..Len(ids) |-> <<ids[i], <<"ra", i>>>>]]

MagnitudeCatalog(ids) ==
    [header |-> <<"ID", "X_ap", "X_ab">>,
     rows   |-> [i \in 1..Len(ids) |-> <<ids[i], <<"ap", i>>, <<"ab", i>>>>]]

JoinInit ==
    /\ fs = NoDisk
    /\ pc = "call"
    /\ \E a, b \in SeqsUpTo(JoinIds, MaxJoinRows) :
          args = [mock_galaxies_catalog |-> GalaxyCatalog(a),
                  magnitude_catalog |-> MagnitudeCatalog(b)]
    /\ result = [ok |-> FALSE, outfile |-> Unwritten, error |-> NoError]
    /\ Idle

Join ==
    /\ pc = "call"
    /\ result' = combine_mag_gal_cats(args.mock_galaxies_catalog, args.magnitude_catalog)
    /\ pc' = "done"
    /\ UNCHANGED <<fs, args, others>>

SpecJoin == JoinInit /\ [][Join]_vars

\* ids_less_than_mag(sed_file_name, filter_name, mag_limit): magnitudes in
\* tenths, so that 249, 250, 251 are 24.9, 25.0, 25.1
Magnitudes == {NaN, Float(249), Float(250), Float(251)}

MagLimit == Float(250)

SelectInit ==
    /\ fs = NoDisk
    /\ pc = "call"
    /\ \E mags \in SeqsUpTo(Magnitudes, MaxMagRows),
          first \in {"ID", "id_galaxy_sky"},
          filter_name \in {"X_ap", "X_ab", "Y_ap"} :
          args = [sed_file |-> [header |-> <<first, "X_ap", "X_ab">>,
                                rows |-> [i \in 1..Len(mags) |-> <<Float(i), mags[i], Float(251)>>]],
                  filter_name |-> filter_name,
                  mag_limit |-> MagLimit]
    /\ result = NotRun
    /\ Idle

Select ==
    /\ pc = "call"
    /\ result' = ids_less_than_mag(args.sed_file, args.filter_name, args.mag_limit)
    /\ pc' = "done"
    /\ UNCHANGED <<fs, args, others>>

SpecSelect == SelectInit /\ [][Select]_vars

\* get_mag_data(sed_ls_command, filter_names) for the group of d/aSED00.hdf5:
\* that shard and maybe d/aSED01.hdf5, each with any "filters" column and up to
\* MaxShardRows objects, beside a shard of another group
IdBase(path) == IF path = File_a00 THEN 10 ELSE IF path = File_a01 THEN 20 ELSE 30

ShardIds(path, n) == [r \in 1..n |-> Float(IdBase(path) + r)]

GroupDisks ==
    UNION {{[p \in P |->
                IF p = File_b00 THEN Shard(p, <<FilterZ>>, ShardIds(p, 1))
                ELSE Shard(p, col[p], ShardIds(p, n[p]))]
            : col \in [P \ {File_b00} -> FilterColumns], n \in [P \ {File_b00} -> 0..MaxShardRows]}
           : P \in {{File_a00, File_b00}, {File_a00, File_a01, File_b00}}}

ExtractInit ==
    /\ fs \in GroupDisks
    /\ pc = "call"
    /\ \E filter_names \in SeqsUpTo({FilterX, FilterY, Decode(FilterZ)}, MaxExtract) :
          args = [sed_ls_command |-> PatternOf(File_a00), filter_names |-> filter_names]
    /\ result = [ok |-> FALSE, ids |-> <<>>, ap_mags |-> <<>>, ab_mags |-> <<>>, error |-> NoError]
    /\ Idle

Extract ==
    /\ pc = "call"
    /\ result' = get_mag_data(args.sed_ls_command, args.filter_names)
    /\ pc' = "done"
    /\ UNCHANGED <<fs, args, others>>

SpecExtract == ExtractInit /\ [][Extract]_vars

(***************************************************************************)
(* make_mock_catalog, one step of its loop at a time.                      *)
(***************************************************************************)
\* a mock light cone file of n galaxies and one group; kind says what it lacks
LightCone(name, n, kind) ==
    LET galaxies ==
            [key \in (IF kind = "no ra" THEN {"id_galaxy_sky"} ELSE {"id_galaxy_sky", "ra"}) |->
                [r \in 1..n |-> IF key = "id_galaxy_sky" THEN r ELSE <<key, name, r>>]]
        groups == [key \in {"id_group_sky", "mvir"} |-> <<<<key, name>>>>]
    IN  IF kind = "no groups" THEN [galaxies |-> galaxies]
        ELSE [galaxies |-> galaxies, groups |-> groups]

MockNames == <<"mock_00.hdf5", "mock_01.hdf5", "mock_02.hdf5", "mock_03.hdf5">>

LightConeKinds == {"whole", "no ra", "no groups"}

MockInit ==
    /\ \E k \in 0..MaxMockFiles :
        \E n \in [1..k -> 0..MaxShardRows], kind \in [1..k -> LightConeKinds] :
        \E galaxy_ids \in {None, Some(<<1>>), Some(<<2, 1>>)} :
          /\ fs = [name \in {MockNames[j] : j \in 1..k} |->
                     LET j == CHOOSE j \in 1..k : MockNames[j] = name
                     IN  LightCone(name, n[j], kind[j])]
          /\ args = [mock_hdf5_files |-> SubSeq(MockNames, 1, k),
                     galaxy_properties |-> <<"id_galaxy_sky", "ra">>,
                     group_properties |-> <<"id_group_sky", "mvir">>,
                     galaxy_ids |-> galaxy_ids,
                     group_ids |-> None,
                     prefix |-> "mock"]
    /\ pc = "for"
    /\ result = [ok |-> FALSE, error |-> NoError]
    /\ open_files = {}
    /\ locals = [i |-> 1, galaxy_values |-> <<>>, group_values |-> <<>>,
                 galaxy_properties_data |-> None, group_properties_data |-> None]
    /\ self = <<>>
    /\ catalogs = NoCatalogs

hdf5_file == args.mock_hdf5_files[locals.i]

\* light_cone = MockLightCone(hdf5_file): h5py.File opens the file, then the
\* two groups are looked up
MockOpen ==
    /\ pc = "for"
    /\ locals.i <= Len(args.mock_hdf5_files)
    /\ open_files' = open_files \cup {hdf5_file}
    /\ LET light_cone == MockLightCone(hdf5_file)
       IN  IF light_cone.ok
           THEN pc' = "galaxies" /\ UNCHANGED result
           ELSE pc' = "raised" /\ result' = [ok |-> FALSE, error |-> light_cone.error]
    /\ UNCHANGED <<fs, args, locals, self, catalogs>>

MockReadGalaxies ==
    /\ pc = "galaxies"
    /\ LET data == get_galaxy_properties(hdf5_file, args.galaxy_properties, args.galaxy_ids)
       IN  IF data.ok
           THEN /\ pc' = "groups"
                /\ locals' = [locals EXCEPT !.galaxy_properties_data = data.value]
                /\ UNCHANGED result
           ELSE /\ pc' = "raised"
                /\ result' = [ok |-> FALSE, error |-> data.error]
                /\ UNCHANGED locals
    /\ UNCHANGED <<fs, args, open_files, self, catalogs>>

MockReadGroups ==
    /\ pc = "groups"
    /\ LET data == get_group_properties(hdf5_file, args.group_properties, args.group_ids)
       IN  IF data.ok
           THEN /\ pc' = "close"
                /\ locals' = [locals EXCEPT !.group_properties_data = data.value]
                /\ UNCHANGED result
           ELSE /\ pc' = "raised"
                /\ result' = [ok |-> FALSE, error |-> data.error]
                /\ UNCHANGED locals
    /\ UNCHANGED <<fs, args, open_files, self, catalogs>>

\* the two appends and light_cone.close_hdf5(), the end of the loop body
MockClose ==
    /\ pc = "close"
    /\ locals' = [locals EXCEPT
                     !.i = @ + 1,
                     !.galaxy_values = IF ~IsNone(locals.galaxy_properties_data)
                                       THEN Append(@, locals.galaxy_properties_data.v) ELSE @,
                     !.group_values = IF ~IsNone(locals.group_properties_data)
                                      THEN Append(@, locals.group_properties_data.v) ELSE @]
    /\ open_files' = open_files \ {hdf5_file}
    /\ pc' = "for"
    /\ UNCHANGED <<fs, args, result, self, catalogs>>

\* the loop is over: the two catalogs are written
MockWrite ==
    /\ pc = "for"
    /\ locals.i > Len(args.mock_hdf5_files)
    /\ catalogs' = [name \in {"mock_galaxies.dat", "mock_group.dat"} |->
                       IF name = "mock_galaxies.dat"
                       THEN [header |-> args.galaxy_properties, rows |-> ChunkRows(locals.galaxy_values)]
                       ELSE [header |-> args.group_properties, rows |-> ChunkRows(locals.group_values)]]
    /\ result' = [ok |-> TRUE, error |-> NoError]
    /\ pc' = "returned"
    /\ UNCHANGED <<fs, args, open_files, locals, self>>

MockNext == MockOpen \/ MockReadGalaxies \/ MockReadGroups \/ MockClose \/ MockWrite

SpecMock == MockInit /\ [][MockNext]_vars

(***************************************************************************)
(* The catalog build of build_catalog_script.py: FilterData(DIRECTORY,     *)
(* filters), one call of find_sed_files_with_filter and of get_mag_data at *)
(* a time, then write_to_ascii("filter_catalog.dat").                      *)
(***************************************************************************)
BuildShards(p) ==
    IF p = File_a00 THEN {Shard(p, c, <<Float(11), NaN>>) : c \in {<<FilterX, FilterY>>, <<FilterX>>}}
    ELSE IF p = File_a01
    THEN {Shard(p, c, <<Float(21)>>) : c \in {<<FilterX, FilterY>>, <<FilterY, FilterX>>, <<FilterX>>}}
    ELSE {Shard(p, c, ids) : c \in {<<FilterZ>>, <<FilterZ, FilterX>>},
                             ids \in {<<Float(11), NaN, Float(21)>>, <<NaN, Float(11)>>, <<Float(31)>>}}

BuildDisks ==
    UNION {{[p \in P |-> shard[p]] : shard \in {f \in [P -> UNION {BuildShards(p) : p \in P}] :
                                                    \A p \in P : f[p] \in BuildShards(p)}}
           : P \in {{File_a00} \cup Q : Q \in SUBSET {File_a01, File_b00}}}

BuildInit ==
    /\ fs \in BuildDisks
    /\ \E filters \in SeqsUpTo({FilterX, Decode(FilterY), FilterZ}, MaxRequest) :
          args = [directory |-> DIRECTORY, filter_names |-> filters]
    /\ pc = "init"
    /\ result = [ok |-> TRUE, error |-> NoError]
    /\ self = <<>>
    /\ locals = <<>>
    /\ open_files = {}
    /\ catalogs = NoCatalogs

\* FilterData.__init__ up to the list of cmds
BuildStart ==
    /\ pc = "init"
    /\ self' = [searchable_hdf5_file |-> _select_appropriate_sed_files(args.directory),
                filter_names_bytes |-> in_bytes(args.filter_names),
                filter_names_string |-> in_str(args.filter_names),
                cmds |-> <<>>, filter_groups |-> <<>>, magnitudes |-> <<>>]
    /\ locals' = [cmds |-> <<>>, group |-> 1]
    /\ pc' = "resolve"
    /\ UNCHANGED <<fs, args, result, open_files, catalogs>>

\* one element of the list of cmds
BuildResolve ==
    /\ pc = "resolve"
    /\ Len(locals.cmds) < Len(self.filter_names_bytes)
    /\ LET cmd == find_sed_files_with_filter(self.searchable_hdf5_file,
                                             self.filter_names_bytes[Len(locals.cmds) + 1])
       IN  IF cmd.ok
           THEN /\ locals' = [locals EXCEPT !.cmds = Append(@, cmd.value)]
                /\ UNCHANGED <<pc, result>>
           ELSE /\ pc' = "raised"
                /\ result' = [ok |-> FALSE, error |-> cmd.error]
                /\ UNCHANGED locals
    /\ UNCHANGED <<fs, args, self, open_files, catalogs>>

\* assign_filters_to_cmds and the assignments up to self.magnitudes = {}
BuildGroup ==
    /\ pc = "resolve"
    /\ Len(locals.cmds) = Len(self.filter_names_bytes)
    /\ LET grouped == assign_filters_to_cmds(locals.cmds, self.filter_names_bytes)
       IN  self' = [self EXCEPT !.cmds = grouped.keys, !.filter_groups = grouped.values,
                                !.magnitudes = <<>>]
    /\ pc' = "get_mag_data"
    /\ UNCHANGED <<fs, args, result, locals, open_files, catalogs>>

\* one turn of the loop of FilterData.get_mag_data
BuildExtract ==
    /\ pc = "get_mag_data"
    /\ locals.group <= Min(Len(self.filter_groups), Len(self.cmds))
    /\ LET data == get_mag_data(self.cmds[locals.group], self.filter_groups[locals.group])
       IN  IF data.ok
           THEN /\ self' = [self EXCEPT !.magnitudes =
                                StoreGroup(@, self.filter_groups[locals.group], data)]
                /\ locals' = [locals EXCEPT !.group = @ + 1]
                /\ UNCHANGED <<pc, result>>
           ELSE /\ pc' = "raised"
                /\ result' = [ok |-> FALSE, error |-> data.error]
                /\ UNCHANGED <<self, locals>>
    /\ UNCHANGED <<fs, args, open_files, catalogs>>

\* the constructor has returned: data.write_to_ascii("filter_catalog.dat")
BuildWrite ==
    /\ pc = "get_mag_data"
    /\ locals.group > Min(Len(self.filter_groups), Len(self.cmds))
    /\ \E ragged_as_objects \in BOOLEAN :
          LET written == write_to_ascii(self, ragged_as_objects)
          IN  /\ catalogs' = [name \in {"filter_catalog.dat"} |-> written.file]
              /\ result' = [ok |-> written.ok, error |-> written.error]
              /\ pc' = IF written.ok THEN "written" ELSE "write raised"
    /\ UNCHANGED <<fs, args, self, locals, open_files>>

BuildNext == BuildStart \/ BuildResolve \/ BuildGroup \/ BuildExtract \/ BuildWrite

SpecBuild == BuildInit /\ [][BuildNext]_vars

(***************************************************************************)
(* Claims.                                                                 *)
(***************************************************************************)
\* the elements of s at the positions where keep holds, in order
RECURSIVE Picked(_, _, _)
Picked(s, keep, i) ==
    IF i > Len(s) THEN <<>>
    ELSE (IF keep[i] THEN <<s[i]>> ELSE <<>>) \o Picked(s, keep, i + 1)

Occurrences(s, x) == Cardinality({i \in 1..Len(s) : s[i] = x})

\* C1: assign_filters_to_cmds returns a partition of the requested filters:
\* the groups' keys are the distinct patterns in order of first encounter,
\* each group's list is the requested filters that resolved to its pattern,
\* in request order, so every requested filter is in exactly one group's list
\* and the lists together hold the request and nothing else; the request
\* [X, Z, Y] with X, Y in A and Z in B gives [A: [X, Y], B: [Z]].
C1_GroupsPartitionRequest ==
    pc = "done" =>
        LET cmds == args.cmds
            filter_list == args.filter_list
            keys == result.keys
            values == result.values
        IN  /\ Len(keys) = Len(values)
            /\ Range(keys) = Range(cmds)
            /\ \A g, h \in 1..Len(keys) :
                  g < h => FirstIndex(cmds, keys[g]) < FirstIndex(cmds, keys[h])
            /\ \A g \in 1..Len(keys) :
                  values[g] = Picked(filter_list, [i \in 1..Len(cmds) |-> cmds[i] = keys[g]], 1)
            /\ \A f \in Range(filter_list) :
                  /\ Cardinality({g \in 1..Len(keys) : f \in Range(values[g])}) = 1
                  /\ Occurrences(Concatenate(values), f) = Occurrences(filter_list, f)
            /\ Range(Concatenate(values)) = Range(filter_list)
            /\ (/\ filter_list = <<FilterX, FilterZ, FilterY>>
                /\ cmds = <<PatternOf(File_a00), PatternOf(File_b00), PatternOf(File_a00)>>)
               => /\ keys = <<PatternOf(File_a00), PatternOf(File_b00)>>
                  /\ values = << <<FilterX, FilterY>>, <<FilterZ>> >>

\* C1 witness: the request [X, Z, Y] over two patterns has been grouped
C1_Witness ==
    /\ pc = "done"
    /\ args.filter_list = <<FilterX, FilterZ, FilterY>>
    /\ args.cmds = <<PatternOf(File_a00), PatternOf(File_b00), PatternOf(File_a00)>>
    /\ Len(result.keys) = 2

\* the representative shards find_sed_files_with_filter was given that hold the filter
Holding(sed_files, filter_name) ==
    {i \in 1..Len(sed_files) : Encode(filter_name) \in Range(fs[sed_files[i]].filters)}

\* C2: when no representative shard holds the filter (or there is none),
\* find_sed_files_with_filter has opened every representative shard and fails
\* with a FilterNotFound error that names the filter.
C2_FilterNotFoundNamesFilter ==
    (pc = "done" /\ Holding(args.sed_files, args.filter_name) = {}) =>
        /\ ~result.ok
        /\ result.opened = args.sed_files
        /\ result.error.type = "FilterNotFound"
        /\ args.filter_name[2] \in result.error.names

\* the path with the two characters before its ".hdf5" extension replaced by "??"
SuffixWildcarded(path) ==
    SubSeq(path, 1, Len(path) - Len(HDF5) - 2) \o <<"?", "?">> \o HDF5

\* C8: find_sed_files_with_filter returns the pattern of the first shard, in
\* the given order, whose "filters" column holds the filter, having opened the
\* shards up to that one and none after it; the pattern is that shard's path
\* with the two characters before the ".hdf5" extension replaced by "??"; the
\* filter given as text and given as bytes resolve alike.
C8_FirstMatchPattern ==
    (pc = "done" /\ Holding(args.sed_files, args.filter_name) # {}) =>
        LET first == CHOOSE i \in Holding(args.sed_files, args.filter_name) :
                        \A j \in Holding(args.sed_files, args.filter_name) : i <= j
        IN  /\ result.ok
            /\ result.opened = SubSeq(args.sed_files, 1, first)
            /\ result.value = SuffixWildcarded(args.sed_files[first])
            /\ find_sed_files_with_filter(args.sed_files, Encode(args.filter_name)) = result
            /\ find_sed_files_with_filter(args.sed_files, Decode(args.filter_name)) = result

\* C10: scrape_available_filters returns each filter name that occurs in a
\* representative shard exactly once, in the order of the names' first
\* occurrences in the concatenation of the shards' "filters" columns.
C10_UniqueInFirstOccurrenceOrder ==
    (pc = "done" /\ Glob(DIRECTORY \o <<"*", "S", "E", "D", "*", "0", "0">> \o HDF5) # {}) =>
        LET files == _select_appropriate_sed_files(DIRECTORY)
            all   == Concatenate([i \in 1..Len(files) |-> fs[files[i]].filters])
            found == result.value
        IN  /\ result.ok
            /\ Range(found) = Range(all)
            /\ \A x \in Range(all) : Occurrences(found, x) = 1
            /\ \A i, j \in 1..Len(found) :
                  i < j => FirstIndex(all, found[i]) < FirstIndex(all, found[j])

\* C10 witness: a name occurs in two shards and the names returned are not in
\* lexical order
C10_Witness ==
    /\ pc = "done"
    /\ result.ok
    /\ Len(result.value) = 2
    /\ StrLess(result.value[2][2], result.value[1][2])
    /\ \E p, q \in DOMAIN fs :
          p # q /\ {p, q} \subseteq Representatives
                /\ Range(fs[p].filters) \cap Range(fs[q].filters) # {}

IdColumn(catalog) == [i \in 1..Len(catalog.rows) |-> catalog.rows[i][1]]

LengthMessage == "Length of mock_catalog must be the same as magnitude catalog."

MismatchMessage == "ID mismatch between the mock galaxies and the magnitude catalog."

InvalidRows(ids) == {i \in 1..Len(ids) : IsNaN(ids[i])}

\* C4 as claimed: for pre-aligned inputs the joined catalog has the input row
\* count minus the number of rows with an invalid id, and holds none of them.
C4_SentinelRowsDropped ==
    (pc = "done" /\ IdColumn(args.mock_galaxies_catalog) = IdColumn(args.magnitude_catalog)) =>
        LET ids == IdColumn(args.mock_galaxies_catalog)
        IN  /\ result.ok
            /\ Len(result.outfile.rows) = Len(ids) - Cardinality(InvalidRows(ids))
            /\ Len(result.outfile.rows) <= Len(ids)

Members(sed_ls_command) == {p \in DOMAIN fs : GlobMatch(sed_ls_command, p)}

RECURSIVE RowsOf(_)
RowsOf(P) ==
    IF P = {} THEN 0
    ELSE LET p == CHOOSE q \in P : TRUE IN Len(fs[p].ids) + RowsOf(P \ {p})

RowsBefore(sed_ls_command, p) ==
    RowsOf({q \in Members(sed_ls_command) : StrLess(q, p)})

\* C5: for a non-empty list of filters that every member shard of the
\* pattern holds, get_mag_data returns N ids and, for every requested filter,
\* N apparent and N absolute values, N the sum of the members' object counts;
\* with the members in sorted path order, position k of a filter's values is
\* the value of that filter's row for the object whose id is at position k.
C5_ExtractAligned ==
    (/\ pc = "done"
     /\ args.filter_names # <<>>
     /\ \A p \in Members(args.sed_ls_command), f \in Range(args.filter_names) :
           Encode(f) \in Range(fs[p].filters)) =>
        LET members == Members(args.sed_ls_command)
            names   == args.filter_names
            N       == RowsOf(members)
        IN  /\ result.ok
            /\ Len(result.ids) = N
            /\ Len(result.ap_mags) = Len(names) /\ Len(result.ab_mags) = Len(names)
            /\ \A f \in 1..Len(names) :
                  Len(result.ap_mags[f]) = N /\ Len(result.ab_mags[f]) = N
            /\ \A p \in members, r \in 1..MaxShardRows + 1, f \in 1..Len(names) :
                  r <= Len(fs[p].ids) =>
                      LET k   == RowsBefore(args.sed_ls_command, p) + r
                          row == FirstIndex(fs[p].filters, Encode(names[f]))
                      IN  /\ result.ids[k] = fs[p].ids[r]
                          /\ result.ap_mags[f][k] = <<"ap", p, row, r>>
                          /\ result.ab_mags[f][k] = <<"ab", p, row, r>>

\* C5 witness: two filters were extracted from two member shards that hold
\* them in different rows, both shards with objects
C5_Witness ==
    /\ pc = "done"
    /\ result.ok
    /\ Len(args.filter_names) = 2
    /\ args.filter_names[1] # args.filter_names[2]
    /\ File_a01 \in DOMAIN fs
    /\ fs[File_a00].filters # fs[File_a01].filters
    /\ Len(fs[File_a00].ids) = 2
    /\ Len(fs[File_a01].ids) >= 1
    /\ Len(result.ids) = Len(fs[File_a00].ids) + Len(fs[File_a01].ids)

\* C6: every shard that is opened is closed again, also when reading it
\* fails: no run of make_mock_catalog ends, by return or by exception, with a
\* file still open, and at most one file is open at any time.
C6_EveryShardClosed ==
    /\ Cardinality(open_files) <= 1
    /\ pc \in {"returned", "raised"} => open_files = {}

\* the requested filters no representative shard holds, and the groups with a
\* member shard that lacks one of the group's filters
Unresolvable ==
    {i \in 1..Len(args.filter_names) :
        Holding(_select_appropriate_sed_files(args.directory), args.filter_names[i]) = {}}

Unextractable ==
    {g \in 1..Len(self.cmds) :
        \E p \in Members(self.cmds[g]), f \in Range(self.filter_groups[g]) :
            f \notin Range(fs[p].filters)}

\* C7: in a catalog build, when the resolution of a requested filter or the
\* extraction of a group fails the run has stopped there with that error and
\* no catalog file exists; once a catalog file exists every requested filter
\* has been resolved and every group has been extracted from all its members.
C7_NoCatalogOnFailure ==
    /\ pc = "raised" =>
          /\ ~result.ok
          /\ catalogs = NoCatalogs
          /\ \/ /\ result.error.type = "UnboundLocalError"
                /\ Len(locals.cmds) + 1 \in Unresolvable
             \/ /\ result.error.type = "ValueError"
                /\ locals.group \in Unextractable
    /\ (pc \in {"init", "resolve"} /\ Unresolvable # {}) => catalogs = NoCatalogs
    /\ "filter_catalog.dat" \in DOMAIN catalogs =>
          /\ pc \in {"written", "write raised"}
          /\ Unresolvable = {}
          /\ Len(locals.cmds) = Len(args.filter_names)
          /\ Unextractable = {}
          /\ locals.group = Len(self.cmds) + 1
          /\ \A f \in Range(self.filter_names_bytes) : DictHas(self.magnitudes, f)

\* C7 witness: the first group had been extracted when the extraction of the
\* second failed at a member shard, and no catalog file exists
C7_Witness ==
    /\ pc = "raised"
    /\ result.error.type = "ValueError"
    /\ locals.group = 2
    /\ DictHas(self.magnitudes, GalaxyIdsKey)
    /\ catalogs = NoCatalogs

\* the groups FilterData.get_mag_data has processed so far in a build
Processed == IF pc = "init" THEN 0 ELSE locals.group - 1

\* the ids of a group's member shards, the members in sorted path order
GroupIds(sed_ls_command) ==
    LET members == NpSort(Members(sed_ls_command))
    IN  Concatenate([i \in 1..Len(members) |-> fs[members[i]].ids])

\* a vector of magnitudes has the length and the row order of the ids: its
\* value at each position is that of the object whose id is at that position
AlignedWith(mags, ids) ==
    /\ Len(mags) = Len(ids)
    /\ \A k \in 1..Len(mags) : fs[mags[k][2]].ids[mags[k][4]] = ids[k]

\* C11: after FilterData.get_mag_data has processed one or more groups, the
\* one id vector kept under "galaxy_ids" is that of the last group processed,
\* whatever the ids of the groups before it; the vectors of a filter have the
\* length and the row order of the kept ids exactly when the filter's group
\* enumerates the same ids in the same order as the last group.
C11_LastGroupIdsRetained ==
    Processed >= 1 =>
        LET retained == DictGet(self.magnitudes, GalaxyIdsKey)
        IN  /\ DictHas(self.magnitudes, GalaxyIdsKey)
            /\ retained = GroupIds(self.cmds[Processed])
            /\ \A g \in 1..Processed : \A f \in Range(self.filter_groups[g]) :
                  LET held == DictGet(self.magnitudes, f)
                  IN  /\ DictHas(self.magnitudes, f)
                      /\ AlignedWith(held.apparent_magnitudes, GroupIds(self.cmds[g]))
                      /\ AlignedWith(held.absolute_magnitudes, GroupIds(self.cmds[g]))
                      /\ AlignedWith(held.apparent_magnitudes, retained)
                            <=> GroupIds(self.cmds[g]) = retained
                      /\ AlignedWith(held.absolute_magnitudes, retained)
                            <=> GroupIds(self.cmds[g]) = retained

\* C11 witness: two groups have been processed, the first with other ids than
\* the second; the ids kept are the second group's and the first group's
\* filter has vectors of another length
C11_Witness ==
    /\ Processed = 2
    /\ GroupIds(self.cmds[1]) # GroupIds(self.cmds[2])
    /\ DictGet(self.magnitudes, GalaxyIdsKey) = GroupIds(self.cmds[2])
    /\ Len(DictGet(self.magnitudes, self.filter_groups[1][1]).apparent_magnitudes)
          # Len(DictGet(self.magnitudes, GalaxyIdsKey))

====
